---- MODULE Spec2Model ----
(***************************************************************************)
(* Model of src/trading/src/backtesting/run_backtest.py: the compatibility *)
(* aware loader (load_model_with_compatibility), the episode runner        *)
(* (run_backtest_episode), the metrics calculator (calculate_metrics,      *)
(* calculate_hit_rate) and the control flow of main.                        *)
(*                                                                         *)
(* Numbers.  Portfolio values, prices and balances are positive integers.  *)
(* Actions are integers in hundredths (an action of 0.11 is 11).  A        *)
(* quotient computed by the code is kept exactly, as a reduced fraction    *)
(* <<n, d>> with d > 0.  The two irrational results (annual_return, a      *)
(* fractional power, and volatility, a square root) are kept as the        *)
(* expression they are computed from.                                      *)
(*                                                                         *)
(* Position labels: "buy" is the source's '매수', "sell" its '매도' and    *)
(* "hold" any other label.                                                  *)
(***************************************************************************)
EXTENDS Integers, Sequences, FiniteSets, TLC

VARIABLES
    pc,        \* position of main (or of the caller of a pure function)
    world,     \* what main finds: the model directory's config.pth, the policy class
    args,      \* parse_args(): the command line flags main reads
    env,       \* the environment collaborator's attributes
    lm,        \* locals of load_model_with_compatibility while it runs
    agent,     \* the policy object main holds (NoAgent = None)
    calls,     \* the calls made on the collaborators, in order
    ep,        \* locals of run_backtest_episode while it runs
    results,   \* backtest_results
    metrics,   \* the metrics mapping
    files,     \* the result files written so far
    db,        \* outcome of the persistence attempt
    ret,       \* what main returned
    exc        \* the exception that left main, if any

vars == <<pc, world, args, env, lm, agent, calls, ep, results, metrics, files, db, ret, exc>>

(***************************************************************************)
(* Bounds of the model.                                                    *)
(***************************************************************************)
MaxTradeLen == 4
MaxHitLen == 3
MaxDataLength == 4
MaxCountLen == 3

(***************************************************************************)
(* Program constants.                                                      *)
(***************************************************************************)
TradingDays == 252
Percent == 100
ActionThreshold == 10

(***************************************************************************)
(* Exact arithmetic on fractions.                                          *)
(***************************************************************************)
Abs(x) == IF x < 0 THEN -x ELSE x

RECURSIVE GCD(_, _)
GCD(a, b) == IF b = 0 THEN a ELSE GCD(b, a % b)

Frac(n, d) ==
    LET s == IF d < 0 THEN -1 ELSE 1
        g == GCD(Abs(n), Abs(d))
    IN  <<(s * n) \div g, (s * d) \div g>>

F0 == <<0, 1>>
FLess(a, b) == a[1] * b[2] < b[1] * a[2]
FNeg(a) == <<-a[1], a[2]>>
\* sums and products reduce before they multiply, to stay within TLC's integers
LCM(a, b) == (a \div GCD(a, b)) * b
FAdd(a, b) ==
    LET l == LCM(a[2], b[2])
    IN  Frac(a[1] * (l \div a[2]) + b[1] * (l \div b[2]), l)
FSub(a, b) == FAdd(a, FNeg(b))
FMul(a, b) ==
    LET g1 == GCD(Abs(a[1]), b[2])
        g2 == GCD(Abs(b[1]), a[2])
    IN  Frac((a[1] \div g1) * (b[1] \div g2), (a[2] \div g2) * (b[2] \div g1))
FDivInt(a, k) == Frac(a[1], a[2] * k)

RECURSIVE FSum(_)
FSum(s) == IF s = <<>> THEN F0 ELSE FAdd(Head(s), FSum(Tail(s)))

FMin2(a, b) == IF FLess(b, a) THEN b ELSE a

RECURSIVE FMin(_)
FMin(s) == IF Len(s) = 1 THEN s[1] ELSE FMin2(s[1], FMin(Tail(s)))

Max2(a, b) == IF a < b THEN b ELSE a

RECURSIVE MaxOf(_)
MaxOf(s) == IF Len(s) = 1 THEN s[1] ELSE Max2(s[1], MaxOf(Tail(s)))

(***************************************************************************)
(* run_backtest_episode, lines 367-384: the returned mapping, from the     *)
(* locals e of the step loop.                                              *)
(***************************************************************************)
EpisodeResult_nodefault(e, initial_balance) ==
    LET pv == e.portfolio_values
        initial_value == IF pv # <<>> THEN pv[1] ELSE initial_balance
        final_value == IF pv # <<>> THEN pv[Len(pv)] ELSE 0
    IN  [actions |-> e.actions,
         rewards |-> e.rewards,
         portfolio_values |-> pv,
         prices |-> e.prices,
         positions |-> e.positions,
         balances |-> e.balances,
         shares |-> e.shares,
         total_return |-> Frac((final_value - initial_value) * Percent, initial_value),
         final_portfolio_value |-> final_value,
         initial_portfolio_value |-> initial_value,
         total_steps |-> e.step]

EpisodeResult(e, initial_balance) ==
    LET pv == e.portfolio_values
        initial_value == IF pv # <<>> THEN pv[1] ELSE initial_balance
        final_value == IF pv # <<>> THEN pv[Len(pv)] ELSE initial_balance
    IN  [actions |-> e.actions,
         rewards |-> e.rewards,
         portfolio_values |-> pv,
         prices |-> e.prices,
         positions |-> e.positions,
         balances |-> e.balances,
         shares |-> e.shares,
         total_return |-> Frac((final_value - initial_value) * Percent, initial_value),
         final_portfolio_value |-> final_value,
         initial_portfolio_value |-> initial_value,
         total_steps |-> e.step]

(***************************************************************************)
(* calculate_hit_rate, lines 387-427.                                      *)
(***************************************************************************)
\* np.diff(portfolio_values) / portfolio_values[:-1]; element i (1-based)
next_returns(pv) == [i \in 1..(Len(pv) - 1) |-> Frac(pv[i + 1] - pv[i], pv[i])]

IsPrediction_inclusive(action) == Abs(action) >= ActionThreshold

\* line 417
IsPrediction(action) == Abs(action) > ActionThreshold

\* line 421
IsHit(action, next_return) ==
    \/ (action > 0 /\ FLess(F0, next_return))
    \/ (action < 0 /\ FLess(next_return, F0))

\* the loop of lines 412-422; i is the 1-based index of the step
RECURSIVE HitLoop(_, _, _, _, _)
HitLoop(actions, nr, i, correct, total) ==
    IF i > Len(actions) - 1 THEN <<correct, total>>
    ELSE IF IsPrediction(actions[i])
         THEN HitLoop(actions, nr, i + 1,
                      IF IsHit(actions[i], nr[i]) THEN correct + 1 ELSE correct,
                      total + 1)
         ELSE HitLoop(actions, nr, i + 1, correct, total)

\* line 425
HitRateOf(correct, total) == IF total > 0 THEN Frac(correct * Percent, total) ELSE F0

calculate_hit_rate(res) ==
    IF Len(res.actions) < 2
    THEN [hit_rate |-> F0, total_hits |-> 0, total_predictions |-> 0]
    ELSE LET r == HitLoop(res.actions, next_returns(res.portfolio_values), 1, 0, 0)
         IN  [hit_rate |-> HitRateOf(r[1], r[2]),
              total_hits |-> r[1],
              total_predictions |-> r[2]]

(***************************************************************************)
(* calculate_metrics, lines 430-505.                                       *)
(***************************************************************************)
EmptyMap == [k \in {} |-> 0]

InsufficientData_off(pv) == Len(pv) <= 2

\* line 442
InsufficientData(pv) == Len(pv) < 2

\* line 454: ((final / initial) ** (252 / num_days) - 1) * 100, kept as the
\* base and the exponent of the power
annual_return(res, num_days) ==
    [base |-> Frac(res.final_portfolio_value, res.initial_portfolio_value),
     exponent |-> Frac(TradingDays, num_days)]

\* np.std: the population variance of the daily returns
Variance(dr) ==
    LET n == Len(dr)
        mean == FDivInt(FSum(dr), n)
        sq == [i \in 1..n |-> FMul(FSub(dr[i], mean), FSub(dr[i], mean))]
    IN  FDivInt(FSum(sq), n)

\* line 457: np.std(daily_returns) * np.sqrt(252) * 100, kept as the variance
\* whose square root np.std takes and the factor it is multiplied by
volatility(dr) ==
    [variance |-> Variance(dr), times_sqrt_of |-> TradingDays, times |-> Percent]

VolatilityPositive(vol) == FLess(F0, vol.variance)
VolatilityZero(vol) == vol.variance = F0

\* line 460
sharpe_ratio_unguarded(annual, vol) == [kind |-> "quotient", num |-> annual, den |-> vol]

sharpe_ratio(annual, vol) ==
    IF VolatilityPositive(vol)
    THEN [kind |-> "quotient", num |-> annual, den |-> vol]
    ELSE [kind |-> "zero"]

RECURSIVE Peak_global(_, _)
Peak_global(pv, i) == IF i = 1 THEN MaxOf(pv) ELSE Peak_global(pv, i - 1)

\* line 463: np.maximum.accumulate
RECURSIVE Peak(_, _)
Peak(pv, i) == IF i = 1 THEN pv[1] ELSE Max2(Peak(pv, i - 1), pv[i])

\* lines 464-465
drawdown(pv) == [i \in 1..Len(pv) |-> Frac((pv[i] - Peak(pv, i)) * Percent, Peak(pv, i))]
max_drawdown(pv) == FMin(drawdown(pv))

\* lines 469-471
CountLabel(positions, labels) == Cardinality({i \in 1..Len(positions) : positions[i] \in labels})

RECURSIVE ScanBack_nobreak(_, _, _, _)
ScanBack_nobreak(positions, pv, i, j) ==
    IF j < 1 THEN 0
    ELSE IF positions[j] = "buy" /\ pv[i] > pv[j]
         THEN 1
         ELSE ScanBack_nobreak(positions, pv, i, j - 1)

RECURSIVE ScanBack_countall(_, _, _, _)
ScanBack_countall(positions, pv, i, j) ==
    IF j < 1 THEN 0
    ELSE (IF positions[j] = "buy" /\ pv[i] > pv[j] THEN 1 ELSE 0)
             + ScanBack_countall(positions, pv, i, j - 1)

\* lines 478-482: the backward scan from the sell at i, now looking at j
RECURSIVE ScanBack(_, _, _, _)
ScanBack(positions, pv, i, j) ==
    IF j < 1 THEN 0
    ELSE IF positions[j] = "buy"
         THEN (IF pv[i] > pv[j] THEN 1 ELSE 0)
         ELSE ScanBack(positions, pv, i, j - 1)

\* lines 474-482
RECURSIVE WinLoop(_, _, _, _)
WinLoop(positions, pv, i, winning) ==
    IF i > Len(positions) THEN winning
    ELSE IF positions[i] = "sell" /\ i > 1
         THEN WinLoop(positions, pv, i + 1, winning + ScanBack(positions, pv, i, i - 1))
         ELSE WinLoop(positions, pv, i + 1, winning)

win_rate_fraction(winning_trades, sell_trades) ==
    IF sell_trades > 0 THEN Frac(winning_trades, sell_trades) ELSE F0

\* line 484
win_rate(winning_trades, sell_trades) ==
    IF sell_trades > 0 THEN Frac(winning_trades * Percent, sell_trades) ELSE F0

calculate_metrics(res) ==
    LET pv == res.portfolio_values IN
    IF InsufficientData(pv) THEN EmptyMap
    ELSE
      LET daily_returns == next_returns(pv)
          num_days == Len(pv)
          annual == annual_return(res, num_days)
          vol == volatility(daily_returns)
          positions == res.positions
          sell_trades == CountLabel(positions, {"sell"})
          winning_trades == WinLoop(positions, pv, 1, 0)
          hr == calculate_hit_rate(res)
      IN  [total_return |-> res.total_return,
           cumulative_return |->
               FMul(FSub(Frac(res.final_portfolio_value, res.initial_portfolio_value),
                         <<1, 1>>), <<Percent, 1>>),
           annual_return |-> annual,
           volatility |-> vol,
           sharpe_ratio |-> sharpe_ratio(annual, vol),
           max_drawdown |-> max_drawdown(pv),
           total_trades |-> CountLabel(positions, {"buy", "sell"}),
           buy_trades |-> CountLabel(positions, {"buy"}),
           sell_trades |-> sell_trades,
           winning_trades |-> winning_trades,
           win_rate |-> win_rate(winning_trades, sell_trades),
           hit_rate |-> hr.hit_rate,
           total_hits |-> hr.total_hits,
           total_predictions |-> hr.total_predictions,
           total_steps |-> res.total_steps]

\* dict.get(key, default)
Get(m, key, default) == IF key \in DOMAIN m THEN m[key] ELSE default


(***************************************************************************)
(* run_backtest_episode, lines 329-360: the locals of the step loop.       *)
(***************************************************************************)
NoFrame == [alive |-> FALSE]

\* lines 329-340
EpisodeStart ==
    [alive |-> TRUE, state |-> 0, done |-> FALSE, step |-> 0,
     actions |-> <<>>, rewards |-> <<>>, portfolio_values |-> <<>>,
     prices |-> <<>>, positions |-> <<>>, balances |-> <<>>, shares |-> <<>>]

RecordStep_prepend(e, action, reward, done, info) ==
    [e EXCEPT !.actions = Append(@, action),
              !.rewards = Append(@, reward),
              !.portfolio_values = Append(@, info.portfolio_value),
              !.prices = <<info.current_price>> \o @,
              !.positions = Append(@, info.position),
              !.balances = Append(@, info.balance),
              !.shares = Append(@, info.shares_held),
              !.state = e.step + 1,
              !.done = done,
              !.step = e.step + 1]

\* lines 350-360: one record appended to each sequence, the observation
\* advanced and the step counter incremented
RecordStep(e, action, reward, done, info) ==
    [e EXCEPT !.actions = Append(@, action),
              !.rewards = Append(@, reward),
              !.portfolio_values = Append(@, info.portfolio_value),
              !.prices = Append(@, info.current_price),
              !.positions = Append(@, info.position),
              !.balances = Append(@, info.balance),
              !.shares = Append(@, info.shares_held),
              !.state = e.step + 1,
              !.done = done,
              !.step = e.step + 1]

(***************************************************************************)
(* Values the collaborators are drawn from.                                *)
(***************************************************************************)
Labels == {"buy", "sell", "hold"}
SampleValues == {90, 100, 110}
SampleActions == {-11, -10, 0, 10, 11}
InitialBalances == {1000, 2500}

Info(value, label) ==
    [portfolio_value |-> value, current_price |-> value, position |-> label,
     balance |-> value, shares_held |-> 0]

(***************************************************************************)
(* The metrics calculator as a pure function: a trace of bounded length is *)
(* drawn sample by sample and handed to calculate_metrics.                 *)
(***************************************************************************)
IdleWorld == [used |-> FALSE]
IdleArgs == [parsed |-> FALSE]
IdleEnv == [data_length |-> 1, initial_balance |-> 1000]
\* None where main holds no policy
NoAgent == [made |-> FALSE]
NoResults == [made |-> FALSE]
NotComputed == [k \in {"not_computed"} |-> 0]
NoReturn == "running"

InitMetrics ==
    /\ pc = "m_input"
    /\ world = IdleWorld
    /\ args = IdleArgs
    /\ env = IdleEnv
    /\ lm = NoFrame
    /\ agent = NoAgent
    /\ calls = <<>>
    /\ ep = EpisodeStart
    /\ results = NoResults
    /\ metrics = NotComputed
    /\ files = {}
    /\ db = "none"
    /\ ret = NoReturn
    /\ exc = "none"

\* a sample whose position label and portfolio value vary
TradeSample ==
    /\ pc = "m_input"
    /\ Len(ep.portfolio_values) < MaxTradeLen
    /\ \E v \in SampleValues, p \in Labels :
          ep' = RecordStep(ep, 0, 0, FALSE, Info(v, p))
    /\ UNCHANGED <<pc, world, args, env, lm, agent, calls, results, metrics, files, db, ret, exc>>

\* a sample whose action and portfolio value vary
HitSample ==
    /\ pc = "m_input"
    /\ Len(ep.portfolio_values) < MaxHitLen
    /\ \E v \in SampleValues, a \in SampleActions :
          ep' = RecordStep(ep, a, 0, FALSE, Info(v, "hold"))
    /\ UNCHANGED <<pc, world, args, env, lm, agent, calls, results, metrics, files, db, ret, exc>>

\* the worked win-rate example of the specification, as an input
ExamplePositions == <<"hold", "buy", "hold", "sell", "buy", "sell">>
ExampleValues == <<100, 100, 110, 120, 120, 90>>

RECURSIVE RecordAll(_, _, _, _)
RecordAll(e, values, labels, i) ==
    IF i > Len(values) THEN e
    ELSE RecordAll(RecordStep(e, 0, 0, FALSE, Info(values[i], labels[i])), values, labels, i + 1)

TradeExample ==
    /\ pc = "m_input"
    /\ ep = EpisodeStart
    /\ ep' = RecordAll(ep, ExampleValues, ExamplePositions, 1)
    /\ UNCHANGED <<pc, world, args, env, lm, agent, calls, results, metrics, files, db, ret, exc>>

\* metrics = calculate_metrics(backtest_results)
MetricsCall ==
    /\ pc = "m_input"
    /\ results' = EpisodeResult(ep, env.initial_balance)
    /\ metrics' = calculate_metrics(results')
    /\ pc' = "m_done"
    /\ UNCHANGED <<world, args, env, lm, agent, calls, ep, files, db, ret, exc>>

\* a sample whose action, position label and portfolio value all vary
CountValues == {100, 110}
CountActions == {-11, 10, 11}

CountSample ==
    /\ pc = "m_input"
    /\ Len(ep.portfolio_values) < MaxCountLen
    /\ \E v \in CountValues, p \in Labels, a \in CountActions :
          ep' = RecordStep(ep, a, 0, FALSE, Info(v, p))
    /\ UNCHANGED <<pc, world, args, env, lm, agent, calls, results, metrics, files, db, ret, exc>>

NextTrades == TradeSample \/ TradeExample \/ MetricsCall
NextHits == HitSample \/ MetricsCall
NextCounts == CountSample \/ MetricsCall

SpecTrades == InitMetrics /\ [][NextTrades]_vars
SpecHits == InitMetrics /\ [][NextHits]_vars
SpecCounts == InitMetrics /\ [][NextCounts]_vars


(***************************************************************************)
(* load_model_with_compatibility, lines 89-314.                            *)
(*                                                                         *)
(* None where a dimension is expected is NoneDim: every test the code      *)
(* makes of such a value is a truth test, under which None and 0 agree.    *)
(* None where a shape is expected is the empty tuple.                      *)
(***************************************************************************)
NoneDim == 0
NoShape == <<>>
DefaultActionDim == 1
DefaultHiddenDim == 256

ArchFlags == {"use_cnn", "use_lstm", "use_mamba", "use_tinytransformer"}

ConfigOf(exists, flags, state_dim, input_shape) ==
    [exists |-> exists,
     state_dim |-> state_dim,
     action_dim |-> DefaultActionDim,
     hidden_dim |-> DefaultHiddenDim,
     use_cnn |-> "use_cnn" \in flags,
     use_lstm |-> "use_lstm" \in flags,
     use_mamba |-> "use_mamba" \in flags,
     use_tinytransformer |-> "use_tinytransformer" \in flags,
     input_shape |-> input_shape]

\* lines 138-147: no config.pth in the model directory
DefaultConfig == ConfigOf(FALSE, {}, NoneDim, NoShape)

\* lines 107-147: the saved_* locals
SavedConfig(w) == IF w.config.exists THEN w.config ELSE DefaultConfig

\* lines 122-123
saved_window_size(cfg) == IF cfg.input_shape # NoShape THEN cfg.input_shape[1] ELSE NoneDim
saved_feature_dim(cfg) == IF cfg.input_shape # NoShape THEN cfg.input_shape[2] ELSE NoneDim

Truthy(d) == d # NoneDim

\* lines 151-159 and 192-198
ObservedDims(obs) ==
    IF obs.kind = "dict"
    THEN [actual_state_dim |-> obs.market[1] * obs.market[2] + obs.portfolio,
          current_window_size |-> obs.market[1],
          current_feature_dim |-> obs.market[2],
          use_cnn |-> TRUE,
          input_shape |-> obs.market]
    ELSE [actual_state_dim |-> obs.dim,
          current_window_size |-> NoneDim,
          current_feature_dim |-> NoneDim,
          use_cnn |-> FALSE,
          input_shape |-> NoShape]

\* line 169
AnyArchitectureFlag(cfg, a) ==
    \/ cfg.use_cnn \/ cfg.use_lstm \/ cfg.use_mamba \/ cfg.use_tinytransformer
    \/ a.use_cnn \/ a.use_lstm \/ a.use_mamba \/ a.use_tinytransformer

DimensionMismatch_window(cfg, a, obs) ==
    IF obs.kind = "dict" /\ AnyArchitectureFlag(cfg, a)
    THEN IF Truthy(saved_window_size(cfg)) /\ saved_window_size(cfg) # obs.market[1]
         THEN "true" ELSE "false"
    ELSE "unbound"

\* lines 169-190: the local dimension_mismatch, which is bound only when the
\* observation is structured and some architecture flag is set
DimensionMismatch(cfg, a, obs) ==
    IF obs.kind = "dict" /\ AnyArchitectureFlag(cfg, a)
    THEN IF Truthy(saved_feature_dim(cfg)) /\ saved_feature_dim(cfg) # obs.market[2]
         THEN "true" ELSE "false"
    ELSE "unbound"

BoolInt(b) == IF b THEN 1 ELSE 0

ArchitectureConflict_pairs(a) ==
    BoolInt(a.use_cnn) + BoolInt(a.use_lstm) + BoolInt(a.use_mamba)
        + BoolInt(a.use_tinytransformer) > 2

\* lines 204-205
ArchitectureConflict(a) ==
    BoolInt(a.use_cnn) + BoolInt(a.use_lstm) + BoolInt(a.use_mamba)
        + BoolInt(a.use_tinytransformer) > 1

SelectArchitecture_reversed(cfg, a) ==
    IF a.use_cnn \/ cfg.use_cnn THEN "cnn"
    ELSE IF a.use_lstm \/ cfg.use_lstm THEN "lstm"
    ELSE IF a.use_mamba \/ cfg.use_mamba THEN "mamba"
    ELSE IF a.use_tinytransformer \/ cfg.use_tinytransformer THEN "tinytransformer"
    ELSE "mlp"

\* lines 209-260: the branch taken
SelectArchitecture(cfg, a) ==
    IF a.use_tinytransformer \/ cfg.use_tinytransformer THEN "tinytransformer"
    ELSE IF a.use_mamba \/ cfg.use_mamba THEN "mamba"
    ELSE IF a.use_lstm \/ cfg.use_lstm THEN "lstm"
    ELSE IF a.use_cnn \/ cfg.use_cnn THEN "cnn"
    ELSE "mlp"

NewAgent_live(arch, cfg, actual_state_dim) ==
    [made |-> TRUE,
     arch |-> arch,
     state_dim |-> IF arch = "mlp" THEN actual_state_dim ELSE NoneDim,
     action_dim |-> cfg.action_dim,
     hidden_dim |-> cfg.hidden_dim,
     input_shape |-> IF arch = "mlp" THEN NoShape ELSE cfg.input_shape,
     last_load |-> "none",
     loaded_by |-> "none"]

\* lines 216-275: the SACAgent constructed
NewAgent(arch, cfg, actual_state_dim) ==
    [made |-> TRUE,
     arch |-> arch,
     state_dim |-> IF arch = "mlp"
                   THEN (IF Truthy(cfg.state_dim) THEN cfg.state_dim ELSE actual_state_dim)
                   ELSE NoneDim,
     action_dim |-> cfg.action_dim,
     hidden_dim |-> cfg.hidden_dim,
     input_shape |-> IF arch = "mlp" THEN NoShape ELSE cfg.input_shape,
     last_load |-> "none",
     loaded_by |-> "none"]

Call(op, by, arg) == [op |-> op, by |-> by, arg |-> arg]
Loader == "load_model_with_compatibility"
Runner == "run_backtest_episode"

\* every return of load_model_with_compatibility, and main's assignment of
\* its result (line 843)
LoaderReturns(a) ==
    /\ agent' = a
    /\ lm' = NoFrame
    /\ pc' = "check_agent"

Loaded(a, by) == [a EXCEPT !.last_load = "ok", !.loaded_by = by]

\* main, lines 755-840: arguments, data collection, preprocessing and the
\* environment; each failure returns
Prepare ==
    /\ pc = "prepare"
    /\ \E ok \in BOOLEAN :
          IF ok THEN pc' = "lmc_config" /\ ret' = ret
          ELSE pc' = "done" /\ ret' = "none"
    /\ UNCHANGED <<world, args, env, lm, agent, calls, ep, results, metrics, files, db, exc>>

\* lines 103-147: torch.load of config.pth, or the defaults
LoadConfig ==
    /\ pc = "lmc_config"
    /\ \E ok \in (IF world.config.exists THEN BOOLEAN ELSE {TRUE}) :
          IF ok
          THEN /\ lm' = [alive |-> TRUE,
                         cfg |-> SavedConfig(world),
                         dims |-> ObservedDims([kind |-> "none", dim |-> NoneDim]),
                         dimension_mismatch |-> "unbound",
                         agent |-> NoAgent]
               /\ pc' = "lmc_observe"
               /\ agent' = agent
          ELSE LoaderReturns(NoAgent)
    /\ UNCHANGED <<world, args, env, calls, ep, results, metrics, files, db, ret, exc>>

\* lines 149-201: env.reset() and the dimensions of the observation
ResolveObservation ==
    /\ pc = "lmc_observe"
    /\ calls' = Append(calls, Call("env.reset", Loader, ""))
    /\ \E ok \in BOOLEAN :
          IF ok
          THEN /\ lm' = [lm EXCEPT !.dims = ObservedDims(env.obs),
                                   !.dimension_mismatch = DimensionMismatch(lm.cfg, args, env.obs)]
               /\ pc' = "lmc_construct"
               /\ agent' = agent
          ELSE LoaderReturns(NoAgent)
    /\ UNCHANGED <<world, args, env, ep, results, metrics, files, db, ret, exc>>

\* lines 203-275: the conflict check and the construction of the policy
ConstructPolicy ==
    /\ pc = "lmc_construct"
    /\ IF ArchitectureConflict(args)
       THEN LoaderReturns(NoAgent) /\ calls' = calls
       ELSE LET arch == SelectArchitecture(lm.cfg, args) IN
            /\ calls' = Append(calls, Call("SACAgent", Loader, arch))
            /\ \E ok \in BOOLEAN :
                  IF ok
                  THEN /\ lm' = [lm EXCEPT !.agent = NewAgent(arch, lm.cfg, lm.dims.actual_state_dim)]
                       /\ pc' = "lmc_load"
                       /\ agent' = agent
                  ELSE LoaderReturns(NoAgent)
    /\ UNCHANGED <<world, args, env, ep, results, metrics, files, db, ret, exc>>

\* line 280
ResizeFirst(frame) == frame.dimension_mismatch = "true"

\* lines 277-293: the first load attempt
FirstLoad ==
    /\ pc = "lmc_load"
    /\ IF ResizeFirst(lm)
       THEN IF world.has_resize
            THEN /\ calls' = Append(calls, Call("load_model_with_resize", Loader, "first"))
                 /\ \E ok \in BOOLEAN :
                       IF ok
                       THEN LoaderReturns(Loaded(lm.agent, "load_model_with_resize"))
                       ELSE /\ lm' = [lm EXCEPT !.agent.last_load = "raised"]
                            /\ pc' = "lmc_retry"
                            /\ agent' = agent
            ELSE LoaderReturns(NoAgent) /\ calls' = calls
       ELSE /\ calls' = Append(calls, Call("load_model", Loader, "first"))
            /\ \E ok \in BOOLEAN :
                  IF ok
                  THEN LoaderReturns(Loaded(lm.agent, "load_model"))
                  ELSE /\ lm' = [lm EXCEPT !.agent.last_load = "raised"]
                       /\ pc' = "lmc_retry"
                       /\ agent' = agent
    /\ UNCHANGED <<world, args, env, ep, results, metrics, files, db, ret, exc>>

RetryLoad_none ==
    /\ pc = "lmc_retry"
    /\ LoaderReturns(NoAgent)
    /\ UNCHANGED <<world, args, env, calls, ep, results, metrics, files, db, ret, exc>>

RetryLoad_partial ==
    /\ pc = "lmc_retry"
    /\ IF world.has_resize
       THEN /\ calls' = Append(calls, Call("load_model_with_resize", Loader, "retry"))
            /\ \E ok \in BOOLEAN :
                  IF ok THEN LoaderReturns(Loaded(lm.agent, "load_model_with_resize"))
                  ELSE LoaderReturns(lm.agent)
       ELSE LoaderReturns(lm.agent) /\ calls' = calls
    /\ UNCHANGED <<world, args, env, ep, results, metrics, files, db, ret, exc>>

\* lines 295-308: the handler of an exception raised by the first attempt
RetryLoad ==
    /\ pc = "lmc_retry"
    /\ IF world.has_resize
       THEN /\ calls' = Append(calls, Call("load_model_with_resize", Loader, "retry"))
            /\ \E ok \in BOOLEAN :
                  IF ok THEN LoaderReturns(Loaded(lm.agent, "load_model_with_resize"))
                  ELSE LoaderReturns(NoAgent)
       ELSE LoaderReturns(NoAgent) /\ calls' = calls
    /\ UNCHANGED <<world, args, env, ep, results, metrics, files, db, ret, exc>>

(***************************************************************************)
(* main, lines 842-978.                                                    *)
(***************************************************************************)
CheckAgent_always ==
    /\ pc = "check_agent"
    /\ pc' = "episode_reset"
    /\ UNCHANGED <<world, args, env, lm, agent, calls, ep, results, metrics, files, db, ret, exc>>

\* lines 845-847
CheckAgent ==
    /\ pc = "check_agent"
    /\ IF agent.made THEN pc' = "episode_reset" /\ ret' = ret
       ELSE pc' = "done" /\ ret' = "none"
    /\ UNCHANGED <<world, args, env, lm, agent, calls, ep, results, metrics, files, db, exc>>

EpisodeAborts_retry ==
    /\ ep' = ep
    /\ pc' = pc
    /\ ret' = ret

\* lines 875-882: an exception left run_backtest_episode; its locals are gone
EpisodeAborts ==
    /\ ep' = NoFrame
    /\ pc' = "done"
    /\ ret' = "none"

\* line 859 and lines 329-340
EpisodeReset ==
    /\ pc = "episode_reset"
    /\ calls' = Append(calls, Call("env.reset", Runner, ""))
    /\ \E ok \in BOOLEAN :
          IF ok THEN ep' = EpisodeStart /\ pc' = "episode_loop" /\ ret' = ret
          ELSE EpisodeAborts
    /\ UNCHANGED <<world, args, env, lm, agent, results, metrics, files, db, exc>>

LoopGuard_inclusive(e, data_length) == ~e.done /\ e.step < data_length

\* line 342
LoopGuard(e, data_length) == ~e.done /\ e.step < data_length - 1

StepActions == {11}
StepInfos == {Info(100, "buy"), Info(110, "sell")}

\* lines 342-360: one pass of the loop
EpisodeStep ==
    /\ pc = "episode_loop"
    /\ LoopGuard(ep, env.data_length)
    /\ \E outcome \in {"ok", "select_action raises", "env.step raises"} :
          IF outcome = "select_action raises"
          THEN /\ calls' = Append(calls, Call("select_action", Runner, "raised"))
               /\ EpisodeAborts
          ELSE IF outcome = "env.step raises"
          THEN /\ calls' = calls \o <<Call("select_action", Runner, ""),
                                      Call("env.step", Runner, "raised")>>
               /\ EpisodeAborts
          ELSE \E action \in StepActions, done \in BOOLEAN, info \in StepInfos :
                  /\ calls' = calls \o <<Call("select_action", Runner, ""),
                                         Call("env.step", Runner,
                                              IF done THEN "done" ELSE "not done")>>
                  /\ ep' = RecordStep(ep, action, 0, done, info)
                  /\ pc' = pc
                  /\ ret' = ret
    /\ UNCHANGED <<world, args, env, lm, agent, results, metrics, files, db, exc>>

\* lines 342 and 367-384, main lines 859-873: the loop ends and the results
\* are returned
EpisodeReturn ==
    /\ pc = "episode_loop"
    /\ ~LoopGuard(ep, env.data_length)
    /\ results' = EpisodeResult(ep, env.initial_balance)
    /\ ep' = NoFrame
    /\ pc' = "metrics"
    /\ UNCHANGED <<world, args, env, lm, agent, calls, metrics, files, db, ret, exc>>

\* line 886
MainMetrics ==
    /\ pc = "metrics"
    /\ calls' = Append(calls, Call("calculate_metrics", "main", ""))
    /\ metrics' = calculate_metrics(results)
    /\ pc' = "save_results"
    /\ UNCHANGED <<world, args, env, lm, agent, ep, results, files, db, ret, exc>>

\* line 890 and lines 594-638: the JSON summary, which reads the metrics with
\* defaults, and the CSV of the trace
SaveResults ==
    /\ pc = "save_results"
    /\ calls' = Append(calls, Call("save_results", "main", ""))
    /\ files' = files \cup {"backtest_results.json", "backtest_detailed.csv"}
    /\ pc' = "save_db"
    /\ UNCHANGED <<world, args, env, lm, agent, ep, results, metrics, db, ret, exc>>

\* lines 893-913 and 508-591
SaveToDatabase ==
    /\ pc = "save_db"
    /\ calls' = Append(calls, Call("save_to_database", "main", ""))
    /\ IF args.no_db
       THEN db' = "skipped" /\ pc' = "plots" /\ ret' = ret
       ELSE \E ok \in BOOLEAN :
               IF ok THEN db' = "saved" /\ pc' = "plots" /\ ret' = ret
               ELSE IF args.skip_db_on_error
               THEN db' = "soft failure" /\ pc' = "plots" /\ ret' = ret
               ELSE db' = "hard failure" /\ pc' = "done" /\ ret' = "none"
    /\ UNCHANGED <<world, args, env, lm, agent, ep, results, metrics, files, exc>>

\* line 678: ax3.plot(steps[1:], results['rewards']) needs both of one length
PlotLengthsAgree(res) ==
    Max2(Len(res.portfolio_values) - 1, 0) = Len(res.rewards)

\* lines 916-918 and 641-744: create_plots swallows its own exceptions
CreatePlots ==
    /\ pc = "plots"
    /\ IF args.save_plots
       THEN /\ calls' = Append(calls, Call("create_plots", "main", ""))
            /\ \E ok \in (IF PlotLengthsAgree(results) THEN BOOLEAN ELSE {FALSE}) :
                  files' = IF ok THEN files \cup {"backtest_plots.png", "backtest_summary.png"}
                           ELSE files
       ELSE calls' = calls /\ files' = files
    /\ pc' = "report"
    /\ UNCHANGED <<world, args, env, lm, agent, ep, results, metrics, db, ret, exc>>

\* lines 920-978: the report, the buy-and-hold comparison (prices[0] and
\* prices[-1], lines 946-947) and the returned bundle
Report ==
    /\ pc = "report"
    /\ IF results.prices = <<>>
       THEN exc' = "IndexError" /\ ret' = ret
       ELSE exc' = exc /\ ret' = "bundle"
    /\ pc' = "done"
    /\ UNCHANGED <<world, args, env, lm, agent, calls, ep, results, metrics, files, db>>

Next ==
    \/ Prepare
    \/ LoadConfig
    \/ ResolveObservation
    \/ ConstructPolicy
    \/ FirstLoad
    \/ RetryLoad
    \/ CheckAgent
    \/ EpisodeReset
    \/ EpisodeStep
    \/ EpisodeReturn
    \/ MainMetrics
    \/ SaveResults
    \/ SaveToDatabase
    \/ CreatePlots
    \/ Report

(***************************************************************************)
(* What main can find when it starts.                                      *)
(***************************************************************************)
FlatObs == [kind |-> "flat", dim |-> 8]
DictObs == [kind |-> "dict", market |-> <<2, 3>>, portfolio |-> 2]

SavedShapes == {NoShape, <<2, 3>>, <<2, 4>>, <<3, 3>>}
SavedStateDims == {NoneDim, 5}

AllConfigs ==
    {DefaultConfig} \cup
    {ConfigOf(TRUE, f, sd, sh) : f \in SUBSET ArchFlags, sd \in SavedStateDims, sh \in SavedShapes}

ArgsOf(cli, no_db, skip, plots) ==
    [use_cnn |-> "use_cnn" \in cli,
     use_lstm |-> "use_lstm" \in cli,
     use_mamba |-> "use_mamba" \in cli,
     use_tinytransformer |-> "use_tinytransformer" \in cli,
     no_db |-> no_db,
     skip_db_on_error |-> skip,
     save_plots |-> plots]

InitMain(Clis, DbFlags, Configs, Observations, DataLengths, Balances) ==
    /\ pc = "prepare"
    /\ \E cfg \in Configs, r \in BOOLEAN : world = [config |-> cfg, has_resize |-> r]
    /\ \E cli \in Clis, n \in DbFlags, s \in DbFlags, p \in DbFlags : args = ArgsOf(cli, n, s, p)
    /\ \E o \in Observations, d \in DataLengths, b \in Balances :
          env = [data_length |-> d, initial_balance |-> b, obs |-> o]
    /\ lm = NoFrame
    /\ agent = NoAgent
    /\ calls = <<>>
    /\ ep = NoFrame
    /\ results = NoResults
    /\ metrics = NotComputed
    /\ files = {}
    /\ db = "none"
    /\ ret = NoReturn
    /\ exc = "none"

\* every command line and every saved configuration, episodes of at most one step
Init == InitMain(SUBSET ArchFlags, {FALSE}, AllConfigs, {FlatObs, DictObs}, {1, 2}, {1000})
Spec == Init /\ [][Next]_vars

\* the default architecture, every episode length and every persistence flag
InitRun == InitMain({{}}, BOOLEAN, {DefaultConfig}, {FlatObs}, 1..MaxDataLength, InitialBalances)
SpecRun == InitRun /\ [][Next]_vars


(***************************************************************************)
(* Properties of the metrics calculator.                                   *)
(***************************************************************************)
Computed == pc = "m_done"
PV == results.portfolio_values
POS == results.positions
ACT == results.actions

FifteenFields ==
    {"total_return", "cumulative_return", "annual_return", "volatility",
     "sharpe_ratio", "max_drawdown", "total_trades", "buy_trades", "sell_trades",
     "winning_trades", "win_rate", "hit_rate", "total_hits", "total_predictions",
     "total_steps"}

\* C3: calculate_metrics returns the empty mapping if and only if the trace
\* has fewer than 2 portfolio-value samples, and a mapping with exactly the
\* fifteen fields for every trace of 2 or more samples.
C3_EmptyIffFewerThanTwo ==
    Computed =>
        /\ (metrics = EmptyMap) <=> (Len(PV) < 2)
        /\ Len(PV) >= 2 => DOMAIN metrics = FifteenFields

C3_Witness ==
    /\ Computed
    /\ Len(PV) = 2
    /\ DOMAIN metrics = FifteenFields

SellsOf(pos) == {i \in 1..Len(pos) : pos[i] = "sell"}
HasEarlierBuy(pos, i) == \E j \in 1..(i - 1) : pos[j] = "buy"
LastBuyBefore(pos, i) ==
    CHOOSE j \in 1..(i - 1) :
        pos[j] = "buy" /\ \A k \in (j + 1)..(i - 1) : pos[k] # "buy"
MatchedSells(pos) == {i \in SellsOf(pos) : HasEarlierBuy(pos, i)}
WinningSells(pos, pv) == {i \in MatchedSells(pos) : pv[i] > pv[LastBuyBefore(pos, i)]}

\* C5 as stated: win_rate = 100 * (winning sells) / (sells that have an
\* earlier buy), a sell with no earlier buy being left out of both.
C5_WinRateOverMatchedSells ==
    (Computed /\ Len(PV) >= 2 /\ MatchedSells(POS) # {}) =>
        metrics.win_rate =
            Frac(Percent * Cardinality(WinningSells(POS, PV)), Cardinality(MatchedSells(POS)))

\* C5 as amended: a sell with no earlier buy is left out of the numerator
\* only; win_rate = 100 * (winning sells) / (all sells), 0 without sells.
C5_WinRateOverAllSells ==
    (Computed /\ Len(PV) >= 2) =>
        metrics.win_rate =
            IF SellsOf(POS) = {} THEN F0
            ELSE Frac(Percent * Cardinality(WinningSells(POS, PV)), Cardinality(SellsOf(POS)))

C5_Witness ==
    /\ Computed
    /\ Len(PV) >= 2
    /\ \E i \in SellsOf(POS) : ~HasEarlierBuy(POS, i)
    /\ WinningSells(POS, PV) # {}
    /\ metrics.win_rate = <<50, 1>>

\* C6: each sell is matched to the nearest earlier buy and wins exactly when
\* its portfolio value exceeds that buy's; buys are not consumed; the example
\* trace gives winning_trades = 1 and win_rate = 50.
C6_NearestEarlierBuy ==
    (Computed /\ Len(PV) >= 2) =>
        /\ metrics.winning_trades = Cardinality(WinningSells(POS, PV))
        /\ (POS = ExamplePositions /\ PV = ExampleValues) =>
               (metrics.winning_trades = 1 /\ metrics.win_rate = <<50, 1>>)

\* one buy matched by two later sells, both winning
C6_Witness ==
    /\ Computed
    /\ Len(PV) >= 3
    /\ metrics.buy_trades = 1
    /\ metrics.sell_trades = 2
    /\ metrics.winning_trades = 2

Sign(x) == IF x > 0 THEN 1 ELSE IF x < 0 THEN -1 ELSE 0
Qualifying(act) == {i \in 1..(Len(act) - 1) : act[i] \notin (-ActionThreshold)..ActionThreshold}
Matching(act, pv) ==
    {i \in Qualifying(act) : Sign(pv[i + 1] - pv[i]) # 0 /\ Sign(act[i]) = Sign(pv[i + 1] - pv[i])}

\* C7: a step is a prediction exactly when its action's magnitude is strictly
\* above 0.1 and a next-step return exists; it is a hit exactly when action and
\* return are both positive or both negative; hit_rate = hits / predictions *
\* 100, and 0 when no action qualifies.
C7_HitRateThreshold ==
    Computed =>
        LET h == calculate_hit_rate(results)
        IN  /\ h.total_predictions = Cardinality(Qualifying(ACT))
            /\ h.total_hits = Cardinality(Matching(ACT, PV))
            /\ h.hit_rate =
                   IF Qualifying(ACT) = {} THEN F0
                   ELSE Frac(Percent * Cardinality(Matching(ACT, PV)),
                             Cardinality(Qualifying(ACT)))

\* an action of exactly 0.10 left out, an action of 0.11 before a rise counted
C7_Witness ==
    /\ Computed
    /\ Len(ACT) = 3
    /\ ACT[1] = ActionThreshold
    /\ ACT[2] = ActionThreshold + 1
    /\ PV[3] > PV[2]
    /\ metrics.total_predictions = 1
    /\ metrics.total_hits = 1
    /\ metrics.hit_rate = <<100, 1>>

NonDecreasing(pv) == \A i \in 1..(Len(pv) - 1) : pv[i] <= pv[i + 1]

\* C8: for 2 or more positive portfolio values max_drawdown <= 0, and it is 0
\* if and only if the sequence is non-decreasing.
C8_MaxDrawdown ==
    (Computed /\ Len(PV) >= 2) =>
        /\ ~FLess(F0, metrics.max_drawdown)
        /\ (metrics.max_drawdown = F0) <=> NonDecreasing(PV)

C8_Witness ==
    /\ Computed
    /\ Len(PV) >= 3
    /\ ~NonDecreasing(PV)
    /\ FLess(metrics.max_drawdown, F0)

\* C9: sharpe_ratio is 0 whenever the volatility is 0, and is the quotient
\* annual_return / volatility only when the volatility is strictly positive.
C9_SharpeGuard ==
    (Computed /\ Len(PV) >= 2) =>
        /\ VolatilityZero(metrics.volatility) => metrics.sharpe_ratio.kind = "zero"
        /\ metrics.sharpe_ratio.kind = "quotient" =>
               /\ VolatilityPositive(metrics.volatility)
               /\ metrics.sharpe_ratio.num = metrics.annual_return
               /\ metrics.sharpe_ratio.den = metrics.volatility
        /\ VolatilityPositive(metrics.volatility) => metrics.sharpe_ratio.kind = "quotient"

\* zero volatility with a non-zero annual return: the quotient would divide by 0
C9_Witness ==
    /\ Computed
    /\ Len(PV) >= 2
    /\ VolatilityZero(metrics.volatility)
    /\ metrics.annual_return.base # <<1, 1>>
    /\ metrics.sharpe_ratio.kind = "zero"


(***************************************************************************)
(* Properties of the episode runner and of main.                           *)
(***************************************************************************)
HasResults == "total_steps" \in DOMAIN results
StepCalls == SelectSeq(calls, LAMBDA c : c.op = "env.step")
DoneIndexes == {i \in 1..Len(StepCalls) : StepCalls[i].arg = "done"}
Min2(a, b) == IF b < a THEN b ELSE a
MinOfSet(S) == CHOOSE x \in S : \A y \in S : x <= y

\* C1: env.step is never called after a step that returned done = true, and
\* never more than data_length - 1 times; the returned trace has
\* min(index of the first done step + 1, data_length - 1) entries
\* (data_length - 1 when no step returned done).
C1_StopsAtDoneOrLastIndex ==
    /\ \A i \in 1..(Len(StepCalls) - 1) : StepCalls[i].arg # "done"
    /\ Len(StepCalls) <= env.data_length - 1
    /\ HasResults =>
           Len(results.portfolio_values) =
               IF DoneIndexes = {} THEN env.data_length - 1
               ELSE Min2(MinOfSet(DoneIndexes), env.data_length - 1)

\* the loop left on done = true while steps remained
C1_Witness ==
    /\ HasResults
    /\ env.data_length = 3
    /\ Len(StepCalls) = 1
    /\ StepCalls[1].arg = "done"
    /\ results.total_steps = 1

\* C2: an episode of zero steps returns an empty trace, initial and final
\* portfolio value both env.initial_balance, total_return 0 and total_steps 0.
C2_EmptyEpisode ==
    (HasResults /\ Len(StepCalls) = 0) =>
        /\ results.actions = <<>> /\ results.rewards = <<>>
        /\ results.portfolio_values = <<>> /\ results.prices = <<>>
        /\ results.positions = <<>> /\ results.balances = <<>>
        /\ results.shares = <<>>
        /\ results.initial_portfolio_value = env.initial_balance
        /\ results.final_portfolio_value = env.initial_balance
        /\ results.total_return = F0
        /\ results.total_steps = 0

C2_Witness ==
    /\ HasResults
    /\ env.data_length = 1
    /\ Len(StepCalls) = 0
    /\ results.total_steps = 0
    /\ results.final_portfolio_value = 2500

\* C4: a run whose trace has fewer than 2 samples ends normally with the
\* results bundle (a hard persistence failure apart), no step raising.
C4_ShortTraceNotFatal ==
    (pc = "done" /\ HasResults /\ Len(results.portfolio_values) < 2 /\ db # "hard failure") =>
        (exc = "none" /\ ret = "bundle")

(***************************************************************************)
(* Properties of the loader.                                               *)
(***************************************************************************)
Constructions == SelectSeq(calls, LAMBDA c : c.op = "SACAgent")
PriorityOrder == <<"tinytransformer", "mamba", "lstm", "cnn">>
FlagOf(r, arch) ==
    CASE arch = "tinytransformer" -> r.use_tinytransformer
      [] arch = "mamba" -> r.use_mamba
      [] arch = "lstm" -> r.use_lstm
      [] arch = "cnn" -> r.use_cnn
Requested(arch) == FlagOf(args, arch) \/ FlagOf(SavedConfig(world), arch)
RequestedRanks == {i \in 1..Len(PriorityOrder) : Requested(PriorityOrder[i])}
ExpectedArchitecture ==
    IF RequestedRanks = {} THEN "mlp" ELSE PriorityOrder[MinOfSet(RequestedRanks)]
PastConstruction == pc \in {"lmc_load", "lmc_retry"} \/ agent.made

\* C10: when the conflict check passes, exactly one policy is constructed;
\* its architecture is the first flag set, by the command line or by the
\* saved configuration, in the order Transformer, Mamba, LSTM, CNN, and MLP
\* when none is; the command line's Transformer flag alone gives Transformer
\* whatever the saved flags.
C10_ArchitecturePriority ==
    /\ Len(Constructions) <= 1
    /\ PastConstruction => Len(Constructions) = 1
    /\ \A i \in 1..Len(Constructions) :
          /\ ~ArchitectureConflict(args)
          /\ Constructions[i].arg = ExpectedArchitecture
          /\ (args.use_tinytransformer /\ ~args.use_mamba /\ ~args.use_lstm /\ ~args.use_cnn)
                 => Constructions[i].arg = "tinytransformer"
    /\ PastConstruction =>
          (lm.alive => lm.agent.arch = ExpectedArchitecture)
          /\ (agent.made => agent.arch = ExpectedArchitecture)

\* the command line asks for the CNN, the saved configuration for the LSTM and
\* the Mamba policy: the Mamba policy is built
C10_Witness ==
    /\ agent.made
    /\ args.use_cnn
    /\ SavedConfig(world).use_lstm /\ SavedConfig(world).use_mamba
    /\ ~SavedConfig(world).use_tinytransformer
    /\ agent.arch = "mamba"
    /\ Len(Constructions) = 1

LoadCalls == SelectSeq(calls, LAMBDA c : c.op \in {"load_model", "load_model_with_resize"})
ResizeCalls == SelectSeq(calls, LAMBDA c : c.op = "load_model_with_resize")
DirectCalls == SelectSeq(calls, LAMBDA c : c.op = "load_model")
CliFlags == {f \in ArchFlags : args[f]}
LoaderReturned == pc \notin {"prepare", "lmc_config", "lmc_observe", "lmc_construct", "lmc_load", "lmc_retry"}
LoaderCalled == \E i \in 1..Len(calls) : calls[i] = Call("env.reset", Loader, "")

\* C11: when the command line sets more than one of the four architecture
\* flags, the loader returns failure, and no policy is constructed and no
\* load or resize-load is attempted, then or earlier.
C11_ConflictAbortsBeforeConstruction ==
    Cardinality(CliFlags) > 1 =>
        /\ Constructions = <<>>
        /\ LoadCalls = <<>>
        /\ pc \notin {"lmc_load", "lmc_retry"}
        /\ lm.alive => ~lm.agent.made
        /\ agent = NoAgent
        /\ LoaderReturned => pc = "check_agent" \/ (pc = "done" /\ ret = "none")

\* two flags on the command line, the observation was read, main has ended
C11_Witness ==
    /\ Cardinality(CliFlags) = 2
    /\ LoaderCalled
    /\ pc = "done"
    /\ ret = "none"
    /\ agent = NoAgent

Structured == env.obs.kind = "dict"
FeatureMismatch ==
    /\ Structured
    /\ SavedConfig(world).input_shape # NoShape
    /\ SavedConfig(world).input_shape[2] # env.obs.market[2]
FirstLoadMade == pc = "lmc_retry" \/ agent.made

\* C12 as stated: whenever the observation is structured and the persisted
\* feature dimension differs from the live one, the first load attempt is
\* never the direct load; it is the resize-load when the policy has one, and
\* without one the loader returns no policy.
C12_FeatureMismatchNeverDirect ==
    FeatureMismatch =>
        /\ LoadCalls # <<>> => LoadCalls[1].op = "load_model_with_resize"
        /\ ~world.has_resize => ~agent.made

\* C12, amended: the same, when in addition an architecture flag is set by
\* the command line or by the saved configuration; then the direct load is
\* never called at all, a policy without resize-load gets no load call and is
\* not returned, and a policy with one is first loaded by the resize-load.
C12_FlaggedFeatureMismatchNeverDirect ==
    (FeatureMismatch /\ AnyArchitectureFlag(SavedConfig(world), args)) =>
        /\ DirectCalls = <<>>
        /\ ~world.has_resize => (LoadCalls = <<>> /\ ~agent.made /\ pc # "lmc_retry")
        /\ FirstLoadMade =>
              /\ world.has_resize
              /\ LoadCalls[1] = Call("load_model_with_resize", Loader, "first")

\* a saved LSTM policy of 4 features, an observation of 3: the policy returned
\* was loaded by one resize-load
C12_Witness ==
    /\ FeatureMismatch
    /\ SavedConfig(world).use_lstm
    /\ agent.made
    /\ agent.loaded_by = "load_model_with_resize"
    /\ LoadCalls = <<Call("load_model_with_resize", Loader, "first")>>

WindowMismatchOnly ==
    /\ Structured
    /\ SavedConfig(world).input_shape # NoShape
    /\ SavedConfig(world).input_shape[1] # env.obs.market[1]
    /\ SavedConfig(world).input_shape[2] = env.obs.market[2]
FlatMismatch ==
    /\ ~Structured
    /\ SavedConfig(world).state_dim # NoneDim
    /\ SavedConfig(world).state_dim # env.obs.dim
Policy == IF lm.alive THEN lm.agent ELSE agent

\* C13: with a window mismatch and equal feature dimensions, or with a flat
\* observation whose dimension differs from the persisted state dimension,
\* the load step always makes the direct load call, and the first load call is
\* never the resize-load; a MLP policy built for a flat observation has the
\* persisted state dimension when one is persisted and the live one otherwise.
C13_WindowOrFlatMismatchProceeds ==
    /\ [][(pc = "lmc_load" /\ (WindowMismatchOnly \/ FlatMismatch)) =>
              calls' = Append(calls, Call("load_model", Loader, "first"))]_vars
    /\ []((WindowMismatchOnly \/ FlatMismatch) =>
              (LoadCalls # <<>> => LoadCalls[1] = Call("load_model", Loader, "first")))
    /\ []((~Structured /\ Policy.made /\ Policy.arch = "mlp") =>
              Policy.state_dim = IF SavedConfig(world).state_dim # NoneDim
                                 THEN SavedConfig(world).state_dim
                                 ELSE env.obs.dim)

\* a flat observation of 8 entries and a persisted state dimension of 5: the
\* MLP policy returned has 5 and was loaded directly
C13_Witness ==
    /\ FlatMismatch
    /\ agent.made
    /\ agent.arch = "mlp"
    /\ agent.state_dim = 5
    /\ env.obs.dim = 8
    /\ agent.loaded_by = "load_model"

\* a persisted window of 3 rows and a live one of 2, 3 features each: the LSTM
\* policy returned was loaded directly
C13_WindowCase ==
    /\ WindowMismatchOnly
    /\ agent.made
    /\ agent.arch = "lstm"
    /\ LoadCalls = <<Call("load_model", Loader, "first")>>

ResizeRetry == Call("load_model_with_resize", Loader, "retry")
DirectLoadRaised == pc = "lmc_retry" /\ DirectCalls # <<>>
LoadedByResize(a) == a.made /\ a.last_load = "ok" /\ a.loaded_by = "load_model_with_resize"

\* C14: after the direct load raised, the next step of a policy with
\* resize-load is one resize-load call, after which the loader returns the
\* policy if the call completed and failure if it raised; of a policy without
\* it, the return of failure with no load call. A run with a direct load call
\* has one such call and at most one resize-load call, none without support.
C14_RetryOnceAfterDirectFailure ==
    /\ [][DirectLoadRaised =>
              /\ pc' = "check_agent"
              /\ IF world.has_resize
                 THEN /\ calls' = Append(calls, ResizeRetry)
                      /\ LoadedByResize(agent') \/ agent' = NoAgent
                 ELSE /\ calls' = calls
                      /\ agent' = NoAgent]_vars
    /\ [](DirectCalls # <<>> =>
              /\ Len(DirectCalls) = 1
              /\ Len(ResizeCalls) <= 1
              /\ ~world.has_resize => ResizeCalls = <<>>
              /\ (LoaderReturned /\ ~(agent.made /\ agent.loaded_by = "load_model") /\ world.has_resize)
                     => ResizeCalls = <<ResizeRetry>>)

\* the direct load raised and the single resize-load retry loaded the policy
C14_Witness ==
    /\ LoadCalls = <<Call("load_model", Loader, "first"), ResizeRetry>>
    /\ LoadedByResize(agent)
    /\ pc = "check_agent"

\* the direct load raised, the retry raised too: failure
C14_RetryRaised ==
    /\ LoadCalls = <<Call("load_model", Loader, "first"), ResizeRetry>>
    /\ agent = NoAgent
    /\ pc = "check_agent"

LastLoadCall == LoadCalls[Len(LoadCalls)]

\* C15: the loader returns either no policy or a policy whose last load call,
\* the direct load or the resize-load, completed without raising; a policy
\* whose last load raised, or that had no load call, is never returned.
C15_NoPartialPolicy ==
    /\ agent = NoAgent \/ agent.made
    /\ agent.made =>
          /\ LoaderReturned
          /\ agent.last_load = "ok"
          /\ LoadCalls # <<>>
          /\ agent.loaded_by = LastLoadCall.op

\* the constructed policy was loaded by the direct load and returned
C15_Witness ==
    /\ agent.made
    /\ agent.last_load = "ok"
    /\ LoadCalls = <<Call("load_model", Loader, "first")>>
    /\ pc = "check_agent"

\* the direct load raised on a policy without resize-load: no policy returned
C15_RaisedNotReturned ==
    /\ LoadCalls = <<Call("load_model", Loader, "first")>>
    /\ ~world.has_resize
    /\ agent = NoAgent
    /\ pc = "check_agent"

CallsBy(who) == SelectSeq(calls, LAMBDA c : c.by = who)
CallsOf(ops) == SelectSeq(calls, LAMBDA c : c.op \in ops)
LoaderOps == {"env.reset", "SACAgent", "load_model", "load_model_with_resize"}
LoaderFailed == LoaderReturned /\ ~agent.made /\ LoaderCalled

\* C16: the loader calls env.reset, the policy constructor and the two load
\* operations only, never env.step or select_action, and none of these two is
\* called while it runs; after it returned failure main ends with no result,
\* run_backtest_episode never starts, and calculate_metrics, save_results
\* and save_to_database are never called.
C16_NoSimulationInLoader ==
    /\ \A i \in 1..Len(calls) : calls[i].by = Loader => calls[i].op \in LoaderOps
    /\ ~LoaderReturned => CallsOf({"env.step", "select_action"}) = <<>>
    /\ (LoaderReturned /\ ~agent.made) =>
          /\ pc \in {"check_agent", "done"}
          /\ pc = "done" => ret = "none"
          /\ ep = NoFrame
          /\ CallsBy(Runner) = <<>>
          /\ CallsBy("main") = <<>>
          /\ CallsOf({"env.step", "select_action", "calculate_metrics",
                      "save_results", "save_to_database", "create_plots"}) = <<>>
          /\ results = NoResults /\ metrics = NotComputed /\ files = {} /\ db = "none"

\* the direct load raised on a policy without resize-load and main has ended
C16_Witness ==
    /\ LoaderFailed
    /\ pc = "done"
    /\ ret = "none"
    /\ Len(calls) = 3
    /\ calls[1] = Call("env.reset", Loader, "")
    /\ calls[3] = Call("load_model", Loader, "first")

RaisedAt == {i \in 1..Len(calls) :
                calls[i].op \in {"select_action", "env.step"} /\ calls[i].arg = "raised"}

\* C17: once select_action or env.step raised, it is the last call of the
\* run: no further step is tried, main has ended with no result, the trace
\* collected so far is gone, and calculate_metrics, save_results,
\* save_to_database and create_plots are never called.
C17_StepExceptionAborts ==
    RaisedAt # {} =>
        /\ RaisedAt = {Len(calls)}
        /\ pc = "done"
        /\ ret = "none"
        /\ ep = NoFrame
        /\ results = NoResults
        /\ metrics = NotComputed
        /\ files = {}
        /\ db = "none"
        /\ CallsBy("main") = <<>>
        /\ CallsOf({"calculate_metrics", "save_results", "save_to_database",
                    "create_plots"}) = <<>>

\* one step was recorded, then env.step raised
C17_Witness ==
    /\ Len(StepCalls) = 2
    /\ StepCalls[1].arg = "not done"
    /\ StepCalls[2].arg = "raised"
    /\ pc = "done"
    /\ ep = NoFrame
    /\ results = NoResults

IndexOf(op) == CHOOSE i \in 1..Len(calls) : calls[i].op = op
Called(op) == \E i \in 1..Len(calls) : calls[i].op = op
ResultFiles == {"backtest_results.json", "backtest_detailed.csv"}
PersistenceFailed == db \in {"soft failure", "hard failure"}

\* C18: a failed save_to_database with skip_db_on_error set lets main go on
\* to the plots and end with the results bundle; without the flag main ends
\* with no bundle and no plots; in both cases the metrics were computed and
\* the JSON and CSV files written before the attempt, and both are still
\* there afterwards.
C18_PersistenceSoftOrHard ==
    /\ db = "soft failure" =>
          /\ args.skip_db_on_error
          /\ pc \in {"plots", "report", "done"}
          /\ (args.save_plots /\ pc # "plots") => Called("create_plots")
          /\ pc = "done" => (ret = "bundle" /\ exc = "none")
    /\ db = "hard failure" =>
          /\ ~args.skip_db_on_error
          /\ pc = "done"
          /\ ret = "none"
          /\ ~Called("create_plots")
    /\ Called("save_to_database") =>
          /\ Called("calculate_metrics") /\ Called("save_results")
          /\ IndexOf("calculate_metrics") < IndexOf("save_to_database")
          /\ IndexOf("save_results") < IndexOf("save_to_database")
    /\ PersistenceFailed =>
          /\ HasResults
          /\ metrics = calculate_metrics(results)
          /\ ResultFiles \subseteq files

\* the same for the runs whose trace is not empty
C18_NonEmptyTrace ==
    (HasResults /\ results.prices = <<>>) \/ C18_PersistenceSoftOrHard

TraceFields == {"actions", "rewards", "portfolio_values", "prices", "positions",
                "balances", "shares"}
CompletedSteps == SelectSeq(StepCalls, LAMBDA c : c.arg # "raised")
Extends(old, new) == Len(new) = Len(old) + 1 /\ SubSeq(new, 1, Len(old)) = old

\* C19: between the passes of the step loop the seven sequences of the trace
\* all have the length of the step counter, which is the number of completed
\* env.step calls; the trace starts empty; a pass appends one entry to each
\* sequence and leaves the earlier entries as they were; the mapping returned
\* holds these sequences, and its total_steps is their common length.
C19_TraceAppendOnly ==
    /\ [](ep.alive =>
             /\ \A f \in TraceFields : Len(ep[f]) = ep.step
             /\ ep.step = Len(CompletedSteps))
    /\ [][(~ep.alive /\ ep'.alive) =>
             (ep'.step = 0 /\ \A f \in TraceFields : ep'[f] = <<>>)]_vars
    /\ [][(ep.alive /\ ep'.alive /\ ep' # ep) =>
             /\ ep'.step = ep.step + 1
             /\ \A f \in TraceFields : Extends(ep[f], ep'[f])]_vars
    /\ [][(ep.alive /\ HasResults') =>
             \A f \in TraceFields : results'[f] = ep[f]]_vars
    /\ [](HasResults =>
             /\ \A f \in TraceFields : Len(results[f]) = results.total_steps
             /\ results.total_steps = Len(CompletedSteps))

\* three passes, the prices recorded in the order they were reported
C19_Witness ==
    /\ HasResults
    /\ results.total_steps = 3
    /\ results.prices = <<100, 110, 100>>
    /\ Len(results.shares) = 3

\* C20: in one invocation of the loader the resize-load is called at most
\* once, also when it was the first attempt and raised.
C20_ResizeLoadAtMostOnce ==
    Len(ResizeCalls) <= 1

\* the same for the invocations whose first attempt was the direct load
C20_AfterDirectLoad ==
    (DirectCalls # <<>> \/ ~FeatureMismatch) => Len(ResizeCalls) <= 1

(***************************************************************************)
(* Consistency of the counts of calculate_metrics.                         *)
(***************************************************************************)
InPercentRange(f) == 0 <= f[1] /\ f[1] <= Percent * f[2] /\ f[2] > 0

\* C21: for every trace of 2 or more samples the counts returned by
\* calculate_metrics agree: total_trades = buy_trades + sell_trades,
\* 0 <= winning_trades <= sell_trades,
\* 0 <= total_hits <= total_predictions <= total_steps - 1, and win_rate and
\* hit_rate lie between 0 and 100.
C21_CountsConsistent ==
    (Computed /\ Len(PV) >= 2) =>
        /\ metrics.total_trades = metrics.buy_trades + metrics.sell_trades
        /\ 0 <= metrics.winning_trades
        /\ metrics.winning_trades <= metrics.sell_trades
        /\ 0 <= metrics.total_hits
        /\ metrics.total_hits <= metrics.total_predictions
        /\ metrics.total_predictions <= metrics.total_steps - 1
        /\ metrics.total_steps = Len(PV)
        /\ InPercentRange(metrics.win_rate)
        /\ InPercentRange(metrics.hit_rate)

\* two buys below the sell that follows them, both actions predictions and
\* one of them a hit: one winning trade of one sell, one hit of two predictions
C21_Witness ==
    /\ Computed
    /\ POS = <<"buy", "buy", "sell">>
    /\ PV = <<100, 100, 110>>
    /\ ACT = <<11, 11, 11>>
    /\ metrics.total_trades = 3
    /\ metrics.winning_trades = 1
    /\ metrics.sell_trades = 1
    /\ metrics.win_rate = <<100, 1>>
    /\ metrics.total_hits = 1
    /\ metrics.total_predictions = 2
    /\ metrics.hit_rate = <<50, 1>>


====
